---------------------------- MODULE Spec2Model ----------------------------
(***************************************************************************)
(* The recognition-event session controller of the face-recognition        *)
(* attendance system (app.py): the capture loop of main(), the cooldown     *)
(* gate can_mark_attendance and the store write update_attendance, run by   *)
(* one or two controller instances against one shared record store.         *)
(*                                                                         *)
(* Time is counted in units of 1/SubSec second: datetime.now() has          *)
(* sub-second resolution, while the stored "%Y-%m-%d %H:%M:%S" strings      *)
(* carry whole seconds only.  A stored timestamp is the number of its       *)
(* second, counted from the instant the model starts at.                    *)
(***************************************************************************)
EXTENDS Integers, Sequences, FiniteSets, TLC

\* ---------------------------------------------------------------- bounds
\* Clock units per second.
SubSec == 3
\* Most faces in one frame.
MaxFaces == 2

\* ------------------------------------------------------ program constants
\* can_mark_attendance's default cooldown_seconds.
CooldownSeconds == 30
\* frame_counter >= 20 ends the session.
DisplayTicks == 20
\* frame_counter <= 10 renders the record; 10 < frame_counter switches the mode.
InfoTicks == 10
\* The default "2000-01-01 00:00:00", in seconds from the model's first instant:
\* the model starts long after it.
SentinelSec == -1000

CooldownUnits == CooldownSeconds * SubSec
\* The clock stops one unit after the cooldown's end.
MaxNow == CooldownUnits + 1
\* The instants at which the clock is read: the first one and the unit after
\* it, and one unit before, at, and one unit after the cooldown's end.
Instants ==
  {t \in 0..MaxNow : t <= 1 \/ t >= CooldownUnits - 1}

\* ------------------------------------------------------------- the values
\* Python's None, for active_id and active_student_img.
None == "None"
\* A record field the store does not hold.
Missing == "<missing>"
MissingField == [k |-> "missing", v |-> 0]
\* An integer field.
IntField(n) == [k |-> "int", v |-> n]
\* A timestamp string strptime parses: v is its second.
TimeField(s) == [k |-> "time", v |-> s]
\* A string strptime rejects, such as student_manager's "N/A".
TextField == [k |-> "text", v |-> 0]

\* The ids of EncodeFile.p: S1 has a record and an image, S2 a record and no
\* image, X an image and no record.
KnownIds == {"S1", "S2", "X"}
Images == {"S1", "X"}
\* A detected face whose best match is not accepted.
NoMatch == "?"
Faces == KnownIds \cup {NoMatch}
\* What one frame holds: the faces in iteration order.
Frames == UNION {[1..n -> Faces] : n \in 0..MaxFaces}

\* What a camera of the two-controller specification sees: nobody, or S1.
RaceFrames == {<<>>, <<"S1">>}

\* The two controller instances (camera stations); Spec runs the first only.
Ctls == {1, 2}

\* The records S1 may hold when the model starts.
InitLast == {TextField, MissingField, TimeField(0), TimeField(0 - CooldownSeconds)}
InitRecordsS1 ==
  { [name |-> "Ann", branch |-> "CS", total_attendance |-> IntField(3),
     last_attendance_time |-> l] : l \in InitLast \ {MissingField} }
  \cup { [name |-> Missing, branch |-> Missing, total_attendance |-> MissingField,
          last_attendance_time |-> MissingField] }
RecordS2 ==
  [name |-> "Bea", branch |-> "EE", total_attendance |-> IntField(5),
   last_attendance_time |-> TextField]

VARIABLES
  store,               \* Students: id -> {} (no record) or {record}
  now,                 \* the clock, in units
  pc,                  \* per controller: "loop", "got" (between get and gate), "halted"
  current_mode,
  frame_counter,
  active_id,
  active_student,      \* {} (None) or {record}
  active_student_img,  \* None or the id whose image it is
  ev,                  \* per controller: what its latest tick did
  dticks,              \* per controller: ticks of the current session since the accepted mark
  markedAt,            \* id -> the clock of the latest increment of its total, or -1
  hist,                \* per controller: the store version and total of its latest get
  writes,              \* id -> the number of updates the store has applied
  beat,                \* flips on every iteration of the single controller
  lastface             \* the last face of the latest frame, where it is recorded

ctlvars == <<pc, current_mode, frame_counter, active_id, active_student,
             active_student_img, ev, dticks, hist>>
vars == <<store, now, pc, current_mode, frame_counter, active_id, active_student,
          active_student_img, ev, dticks, markedAt, hist, writes, beat, lastface>>

\* ------------------------------------------------------ the pure functions
\* datetime.strftime("%Y-%m-%d %H:%M:%S"): the clock cut to its second.
Strftime(t) == TimeField(t \div SubSec)

\* datetime.strptime succeeded.
Parses(f) == f.k = "time"
\* The clock value of a parsed timestamp.
Strptime(f) == f.v * SubSec

\* The gate with ">=" for ">".
can_mark_attendance_AtLeast(f, t) ==
  IF ~Parses(f) THEN TRUE
  ELSE (t - Strptime(f)) >= CooldownUnits

\* The gate whose except branch answers False.
can_mark_attendance_RejectUnparsed(f, t) ==
  IF ~Parses(f) THEN FALSE
  ELSE (t - Strptime(f)) > CooldownUnits

\* can_mark_attendance(last_time_str) evaluated when the clock reads t.
can_mark_attendance(f, t) ==
  IF ~Parses(f) THEN TRUE
  ELSE (t - Strptime(f)) > CooldownUnits

\* student_data.get("total_attendance", 0)
TotalOf(r) == IF r.total_attendance.k = "int" THEN r.total_attendance.v ELSE 0

\* The four setdefault calls on the fetched record.
WithDefaults(id, r) ==
  [name |-> IF r.name = Missing THEN id ELSE r.name,
   branch |-> IF r.branch = Missing THEN "N/A" ELSE r.branch,
   total_attendance |-> IF r.total_attendance.k = "missing" THEN IntField(0)
                        ELSE r.total_attendance,
   last_attendance_time |-> IF r.last_attendance_time.k = "missing"
                            THEN TimeField(SentinelSec)
                            ELSE r.last_attendance_time]

\* students_ref.child(id).update({...}): a partial merge into the stored record.
StoreUpdate(st, id, total, stamp) ==
  [st EXCEPT ![id] =
     IF st[id] = {}
     THEN {[name |-> Missing, branch |-> Missing,
            total_attendance |-> total, last_attendance_time |-> stamp]}
     ELSE {[r EXCEPT !.total_attendance = total, !.last_attendance_time = stamp]
            : r \in st[id]}]

\* The record of a one-element set.
The(S) == CHOOSE r \in S : TRUE

\* The for loop taking the faces in reverse order: the first face wins.
RECURSIVE ForFaces_Reversed(_, _, _)
ForFaces_Reversed(frame, i, L) ==
  IF i > Len(frame) THEN L
  ELSE LET f == frame[Len(frame) + 1 - i]
           L1 == IF f = NoMatch THEN L
                 ELSE [id |-> f,
                       fc |-> IF L.fc = 0 THEN 1 ELSE L.fc,
                       mode |-> IF L.fc = 0 THEN 1 ELSE L.mode]
       IN ForFaces_Reversed(frame, i + 1, L1)

\* The for loop over the frame's faces, from face i on: a matched face sets
\* active_id, and starts the session when frame_counter is 0.
RECURSIVE ForFaces(_, _, _)
ForFaces(frame, i, L) ==
  IF i > Len(frame) THEN L
  ELSE LET f == frame[i]
           L1 == IF f = NoMatch THEN L
                 ELSE [id |-> f,
                       fc |-> IF L.fc = 0 THEN 1 ELSE L.fc,
                       mode |-> IF L.fc = 0 THEN 1 ELSE L.mode]
       IN ForFaces(frame, i + 1, L1)

\* The last matched face of a frame, or None.
RECURSIVE LastMatch(_, _)
LastMatch(frame, i) ==
  IF i = 0 THEN None
  ELSE IF frame[i] # NoMatch THEN frame[i] ELSE LastMatch(frame, i - 1)

\* ------------------------------------------------------- one loop iteration
\* A controller's in-memory state, with what the iteration has done so far.
Cur(c) ==
  [mode |-> current_mode[c], fc |-> frame_counter[c], id |-> active_id[c],
   stu |-> active_student[c], img |-> active_student_img[c],
   next |-> "run", got |-> None, gate |-> "none", put |-> None, reset |-> FALSE,
   seen |-> MissingField, el |-> "none"]

\* From the top of the loop to the cooldown gate: the for loop over the faces,
\* the store get, the setdefault calls and the image check; or the else branch
\* of "if face_locations".  next: "gate" (the gate comes next), "display"
\* (no get was due), "done" (the iteration ended), "halt" (an exception left main).
\* The branch without its reset and its "continue".
NoRecordFound_FallsThrough(R, id) ==
  [R EXCEPT !.stu = {}, !.got = id, !.next = "display"]

\* "if not active_student": the get found no record; back to idle, "continue".
NoRecordFound(R, id) ==
  [R EXCEPT !.stu = {}, !.fc = 0, !.mode = 0, !.got = id, !.next = "done"]

\* The image check without its reset and its "continue".
NoImageFound_FallsThrough(R, id, r) ==
  [R EXCEPT !.stu = {r}, !.got = id, !.next = "gate"]

\* The image file is missing: back to idle, "continue".
NoImageFound(R, id, r) ==
  [R EXCEPT !.stu = {r}, !.fc = 0, !.mode = 0, !.got = id, !.next = "done"]

BeforeGate(R, frame, st) ==
  IF Len(frame) = 0
  THEN [R EXCEPT !.mode = 0, !.fc = 0, !.next = "done"]
  ELSE LET F == ForFaces(frame, 1, [id |-> R.id, fc |-> R.fc, mode |-> R.mode])
           R1 == [R EXCEPT !.id = F.id, !.fc = F.fc, !.mode = F.mode]
       IN IF F.fc # 1 THEN [R1 EXCEPT !.next = "display"]
          ELSE IF F.id = None THEN [R1 EXCEPT !.next = "halt"]
          ELSE IF st[F.id] = {} THEN NoRecordFound(R1, F.id)
          ELSE LET r == WithDefaults(F.id, The(st[F.id]))
               IN IF F.id \notin Images THEN NoImageFound(R1, F.id, r)
                  ELSE [R1 EXCEPT !.stu = {r}, !.img = F.id,
                                  !.got = F.id, !.next = "gate"]

\* The update without the "+ 1".
update_attendance_NoIncrement(st, id, stu, t) ==
  StoreUpdate(st, id, IntField(TotalOf(stu)), Strftime(t))

\* The update that increments the total the store holds, not the one read.
update_attendance_OnStored(st, id, stu, t) ==
  StoreUpdate(st, id, IntField(TotalOf(The(st[id])) + 1), Strftime(t))

\* The update that sends the whole cached record, defaults included.
update_attendance_WholeRecord(st, id, stu, t) ==
  [st EXCEPT ![id] = {[stu EXCEPT !.total_attendance = IntField(TotalOf(stu) + 1),
                                  !.last_attendance_time = Strftime(t)]}]

\* update_attendance(student_id, student_data) when the clock reads t: the
\* record the store then holds.
update_attendance(st, id, stu, t) ==
  StoreUpdate(st, id, IntField(TotalOf(stu) + 1), Strftime(t))

\* student_data after update_attendance.
Marked(stu, t) ==
  [stu EXCEPT !.total_attendance = IntField(TotalOf(stu) + 1),
              !.last_attendance_time = Strftime(t)]

\* The cooldown gate on the fetched record when the clock reads t.
GateAccepts(R, t) == can_mark_attendance(The(R.stu).last_attendance_time, t)

\* How the time since timestamp f compares with the cooldown at clock t.
ElapsedIs(f, t) ==
  IF ~Parses(f) THEN "unparsed"
  ELSE IF t - Strptime(f) > CooldownUnits THEN "more"
  ELSE IF t - Strptime(f) = CooldownUnits THEN "equal" ELSE "less"

\* The controller after the gate: the mark, or mode 3 with the counter reset.
AfterGate(R, t) ==
  LET f == The(R.stu).last_attendance_time
      R1 == [R EXCEPT !.seen = f, !.el = ElapsedIs(f, t)]
  IN IF GateAccepts(R, t)
     THEN [R1 EXCEPT !.stu = {Marked(The(R.stu), t)}, !.gate = "accept",
                     !.put = R.id, !.next = "display"]
     ELSE [R1 EXCEPT !.mode = 3, !.fc = 0, !.gate = "reject", !.next = "display"]

\* The store after the gate.
StoreAfterGate(R, st, t) ==
  IF GateAccepts(R, t) THEN update_attendance(st, R.id, The(R.stu), t) ELSE st

\* The block with the reset one tick late: ">" for ">=".
Display_LateReset(R) ==
  IF R.mode = 3 THEN [R EXCEPT !.next = "done"]
  ELSE LET m == IF InfoTicks < R.fc /\ R.fc < DisplayTicks THEN 2 ELSE R.mode
       IN IF R.fc <= InfoTicks /\ (R.stu = {} \/ R.img = None)
          THEN [R EXCEPT !.mode = m, !.next = "halt"]
          ELSE IF R.fc + 1 > DisplayTicks
          THEN [R EXCEPT !.mode = 0, !.fc = 0, !.stu = {}, !.img = None,
                         !.reset = TRUE, !.next = "done"]
          ELSE [R EXCEPT !.mode = m, !.fc = R.fc + 1, !.next = "done"]

\* The block under "if current_mode != 3": the mode switch, the rendering of
\* the cached record (which raises when the record or the image is None), the
\* counter, and the reset at the threshold.
Display(R) ==
  IF R.mode = 3 THEN [R EXCEPT !.next = "done"]
  ELSE LET m == IF InfoTicks < R.fc /\ R.fc < DisplayTicks THEN 2 ELSE R.mode
       IN IF R.fc <= InfoTicks /\ (R.stu = {} \/ R.img = None)
          THEN [R EXCEPT !.mode = m, !.next = "halt"]
          ELSE IF R.fc + 1 >= DisplayTicks
          THEN [R EXCEPT !.mode = 0, !.fc = 0, !.stu = {}, !.img = None,
                         !.reset = TRUE, !.next = "done"]
          ELSE [R EXCEPT !.mode = m, !.fc = R.fc + 1, !.next = "done"]

\* One whole iteration with the store reliable.
AfterTick(R, frame, st, t) ==
  LET R1 == BeforeGate(R, frame, st)
      R2 == IF R1.next = "gate" THEN AfterGate(R1, t) ELSE R1
  IN IF R2.next = "display" THEN Display(R2) ELSE R2

StoreAfterTick(R, frame, st, t) ==
  LET R1 == BeforeGate(R, frame, st)
  IN IF R1.next = "gate" THEN StoreAfterGate(R1, st, t) ELSE st

\* ------------------------------------------------------------ the history
NoEvent ==
  [faces |-> FALSE, matched |-> None, fc0 |-> 0, got |-> None,
   gate |-> "none", put |-> None, reset |-> FALSE, xrun |-> 0, failed |-> "none",
   seen |-> MissingField, el |-> "none"]
NoHist == [id |-> None, ver |-> 0, base |-> 0, wrote |-> FALSE]

\* What the iteration did, for the claims.
EventOf(c, frame, R) ==
  LET m == LastMatch(frame, Len(frame))
  IN [faces |-> Len(frame) > 0, matched |-> m,
      fc0 |-> IF frame_counter[c] < 2 THEN frame_counter[c] ELSE 2,
      got |-> R.got, gate |-> R.gate, put |-> R.put, reset |-> R.reset,
      seen |-> R.seen, el |-> R.el,
      xrun |-> IF m # None /\ store[m] = {}
               THEN (IF ev[c].xrun < 2 THEN ev[c].xrun + 1 ELSE 2) ELSE 0,
      failed |-> "none"]

\* Ticks of the session since the accepted mark, this one included.
DticksOf(c, R) ==
  IF R.gate = "accept" THEN 1
  ELSE IF R.reset \/ (R.fc >= 2 /\ R.next # "halt") THEN dticks[c] + 1
  ELSE 0

\* The store version and the total a get has read, and whether the iteration
\* then wrote.
HistAfterGet(c, R, st) ==
  IF R.got # None /\ st[R.got] # {}
  THEN [id |-> R.got, ver |-> writes[R.got], base |-> TotalOf(The(st[R.got])),
        wrote |-> R.put # None]
  ELSE hist[c]

\* The controller's variables take the iteration's result.
Commit(c, R) ==
  /\ pc' = [pc EXCEPT ![c] = IF R.next = "halt" THEN "halted"
                             ELSE IF R.next = "gate" THEN "got" ELSE "loop"]
  /\ current_mode' = [current_mode EXCEPT ![c] = R.mode]
  /\ frame_counter' = [frame_counter EXCEPT ![c] = R.fc]
  /\ active_id' = [active_id EXCEPT ![c] = R.id]
  /\ active_student' = [active_student EXCEPT ![c] = R.stu]
  /\ active_student_img' = [active_student_img EXCEPT ![c] = R.img]

\* The store and its history take a mark by the controller, if it made one.
CommitStore(R, st) ==
  /\ store' = st
  /\ markedAt' = IF R.put # None THEN [markedAt EXCEPT ![R.put] = now] ELSE markedAt
  /\ writes' = IF R.put # None THEN [writes EXCEPT ![R.put] = @ + 1] ELSE writes

\* ------------------------------------------------------------ the actions
\* One iteration of "while True", taken whole: a single controller, a store
\* that answers.
TickOn(c, frame) ==
  /\ pc[c] = "loop"
  /\ LET R == AfterTick(Cur(c), frame, store, now)
     IN /\ Commit(c, R)
        /\ CommitStore(R, StoreAfterTick(Cur(c), frame, store, now))
        /\ ev' = [ev EXCEPT ![c] = EventOf(c, frame, R)]
        /\ dticks' = [dticks EXCEPT ![c] = DticksOf(c, R)]
        /\ hist' = [hist EXCEPT ![c] = HistAfterGet(c, R, store)]
  /\ beat' = 1 - beat
  /\ UNCHANGED now

Tick(c) ==
  \E frame \in Frames : TickOn(c, frame) /\ UNCHANGED lastface

\* The same iteration, with the last face the for loop iterated recorded.
TickSeen(c) ==
  \E frame \in Frames :
    /\ TickOn(c, frame)
    /\ lastface' = IF Len(frame) = 0 THEN None ELSE frame[Len(frame)]

\* Time passes.
Advance ==
  /\ \E t \in Instants : t > now /\ now' = t
  /\ UNCHANGED <<store, markedAt, writes, ctlvars, beat, lastface>>

\* The process is started again: main() from its first line.
Restart(c) ==
  /\ pc' = [pc EXCEPT ![c] = "loop"]
  /\ current_mode' = [current_mode EXCEPT ![c] = 0]
  /\ frame_counter' = [frame_counter EXCEPT ![c] = 0]
  /\ active_id' = [active_id EXCEPT ![c] = None]
  /\ active_student' = [active_student EXCEPT ![c] = {}]
  /\ active_student_img' = [active_student_img EXCEPT ![c] = None]
  /\ ev' = [ev EXCEPT ![c] = NoEvent]
  /\ dticks' = [dticks EXCEPT ![c] = 0]
  /\ hist' = [hist EXCEPT ![c] = NoHist]
  /\ UNCHANGED <<store, now, markedAt, writes, beat, lastface>>

\* The for loop alone: the controller when the get is called.
AtGet(R, frame) ==
  LET F == ForFaces(frame, 1, [id |-> R.id, fc |-> R.fc, mode |-> R.mode])
  IN [R EXCEPT !.id = F.id, !.fc = F.fc, !.mode = F.mode, !.next = "halt"]

\* An iteration on which the store fails: the get raises, or the update raises
\* (with the write applied or not: a lost answer looks like a failure too).
\* Nothing in main catches the exception.
TickStoreFails(c) ==
  /\ pc[c] = "loop"
  /\ \E frame \in Frames, which \in {"get", "update"}, applied \in BOOLEAN :
       LET R1 == BeforeGate(Cur(c), frame, store)
           R == IF which = "get" THEN AtGet(Cur(c), frame)
                ELSE [R1 EXCEPT !.next = "halt",
                                !.put = IF applied THEN R1.id ELSE None]
       IN /\ R1.got # None
          /\ which = "update" => (R1.next = "gate" /\ GateAccepts(R1, now))
          /\ which = "get" => ~applied
          /\ Commit(c, R)
          /\ CommitStore(R, IF applied THEN StoreAfterGate(R1, store, now) ELSE store)
          /\ ev' = [ev EXCEPT ![c] =
                      [EventOf(c, frame, R) EXCEPT
                         !.failed = which,
                         !.got = IF which = "get" THEN None ELSE R1.got]]
          /\ dticks' = [dticks EXCEPT ![c] = 0]
          /\ hist' = [hist EXCEPT ![c] =
                        IF which = "get" THEN hist[c]
                        ELSE [HistAfterGet(c, R1, store) EXCEPT !.wrote = applied]]
  /\ beat' = 1 - beat
  /\ UNCHANGED <<now, lastface>>

\* With two controllers the iteration is two steps, the store being shared:
\* up to the get's answer, and from the gate on.
TickBegin(c) ==
  /\ pc[c] = "loop"
  /\ \E frame \in RaceFrames :
       LET R1 == BeforeGate(Cur(c), frame, store)
           R == IF R1.next = "display" THEN Display(R1) ELSE R1
       IN /\ Commit(c, R)
          /\ ev' = [ev EXCEPT ![c] = EventOf(c, frame, R)]
          /\ dticks' = [dticks EXCEPT ![c] = DticksOf(c, R)]
          /\ hist' = [hist EXCEPT ![c] = HistAfterGet(c, R, store)]
  /\ UNCHANGED <<store, now, markedAt, writes, beat, lastface>>

TickEnd(c) ==
  /\ pc[c] = "got"
  /\ LET R0 == [Cur(c) EXCEPT !.next = "gate", !.got = active_id[c]]
         R == Display(AfterGate(R0, now))
     IN /\ Commit(c, R)
        /\ CommitStore(R, StoreAfterGate(R0, store, now))
        /\ ev' = [ev EXCEPT ![c] = [@ EXCEPT !.gate = R.gate, !.put = R.put,
                                             !.reset = R.reset, !.seen = R.seen,
                                             !.el = R.el]]
        /\ dticks' = [dticks EXCEPT ![c] = DticksOf(c, R)]
        /\ hist' = [hist EXCEPT ![c] = [@ EXCEPT !.wrote = R.put # None]]
  /\ UNCHANGED <<now, beat, lastface>>

Init ==
  /\ \E r \in InitRecordsS1 :
       store = [id \in KnownIds |->
                  IF id = "S1" THEN {r} ELSE IF id = "S2" THEN {RecordS2} ELSE {}]
  /\ now = 0
  /\ pc = [c \in Ctls |-> "loop"]
  /\ current_mode = [c \in Ctls |-> 0]
  /\ frame_counter = [c \in Ctls |-> 0]
  /\ active_id = [c \in Ctls |-> None]
  /\ active_student = [c \in Ctls |-> {}]
  /\ active_student_img = [c \in Ctls |-> None]
  /\ ev = [c \in Ctls |-> NoEvent]
  /\ dticks = [c \in Ctls |-> 0]
  /\ markedAt = [id \in KnownIds |-> -1]
  /\ hist = [c \in Ctls |-> NoHist]
  /\ writes = [id \in KnownIds |-> 0]
  /\ beat = 0
  /\ lastface = None

Next ==
  \/ Tick(1)
  \/ Advance
  \/ Restart(1)

Spec == Init /\ [][Next]_vars

\* The store may fail.
NextFail ==
  \/ Tick(1)
  \/ TickStoreFails(1)
  \/ Advance
  \/ Restart(1)

SpecFail == Init /\ [][NextFail]_vars

\* Two controllers on one store.
NextTwo ==
  \/ \E c \in Ctls : TickBegin(c)
  \/ \E c \in Ctls : TickEnd(c)
  \/ Advance

SpecTwo == Init /\ [][NextTwo]_vars

\* The loop never pauses: "while True" takes iteration after iteration.
NextFair ==
  \/ Tick(1)
  \/ Advance

FairSpec == Init /\ [][NextFair]_vars /\ WF_vars(Tick(1))

\* The single controller with each frame's last face recorded, over the
\* iterations of one reading of the clock: which face sets active_id does not
\* depend on the time.
NextSeen ==
  \/ TickSeen(1)
  \/ Restart(1)

SpecSeen == Init /\ [][NextSeen]_vars

\* A step that is one iteration of the single controller's loop.
TickStep == beat' # beat

\* The record the store holds for id, with the defaults the controller reads
\* it with.
Stored(st, id) == WithDefaults(id, The(st[id]))

\* ------------------------------------------------------------------ claims

\* C1 (cooldown acceptance): on an iteration that starts idle (frame_counter
\* = 0) and matches subject S, who has a record and a local image and whose
\* last_attendance_time lies more than the cooldown before the clock, the
\* controller issues exactly one update for S, which sets total_attendance to
\* the stored value + 1 and last_attendance_time to the clock's reading, and
\* the iteration ends in the display stage: counter not 0, mode not 3.
C1_CooldownAcceptance ==
  [][\A S \in KnownIds :
       ( /\ TickStep
         /\ frame_counter[1] = 0
         /\ ev'[1].matched = S
         /\ store[S] # {}
         /\ S \in Images
         /\ Parses(Stored(store, S).last_attendance_time)
         /\ now - Strptime(Stored(store, S).last_attendance_time) > CooldownUnits )
       => ( /\ ev'[1].put = S
            /\ writes'[S] = writes[S] + 1
            /\ \A T \in KnownIds \ {S} : writes'[T] = writes[T]
            /\ The(store'[S]).total_attendance = IntField(TotalOf(The(store[S])) + 1)
            /\ The(store'[S]).last_attendance_time = Strftime(now)
            /\ pc'[1] = "loop"
            /\ frame_counter'[1] = 2
            /\ current_mode'[1] = 1 )]_vars

\* C1's case: an idle controller matched S1, whose stored timestamp was a real
\* one older than the cooldown, and marked it.
C1_Witness ==
  /\ ev[1].fc0 = 0 /\ ev[1].matched = "S1" /\ ev[1].put = "S1"
  /\ ev[1].gate = "accept" /\ ev[1].el = "more"
  /\ ev[1].seen.v > SentinelSec
  /\ frame_counter[1] = 2

\* C2 (cooldown rejection): on an iteration whose gate is given S's record
\* with at most the cooldown elapsed (exactly 30 s included), no update is
\* issued, the store is unchanged, and the iteration ends with mode 3 and
\* frame_counter 0.
C2_CooldownRejection ==
  [][\A S \in KnownIds :
       ( /\ TickStep
         /\ ev'[1].gate # "none"
         /\ ev'[1].got = S
         /\ store[S] # {}
         /\ Parses(Stored(store, S).last_attendance_time)
         /\ now - Strptime(Stored(store, S).last_attendance_time) <= CooldownUnits )
       => ( /\ ev'[1].put = None
            /\ writes' = writes
            /\ store' = store
            /\ pc'[1] = "loop"
            /\ current_mode'[1] = 3
            /\ frame_counter'[1] = 0 )]_vars

\* C2's case: the gate rejected a record marked exactly the cooldown ago.
C2_Witness ==
  /\ ev[1].gate = "reject" /\ ev[1].el = "equal" /\ ev[1].got = "S1"
  /\ current_mode[1] = 3 /\ frame_counter[1] = 0

\* C3 (no duplicate mark within a cooldown window): with the single controller
\* the only writer, through any ticks, time advances and restarts, two
\* increments of one subject's total_attendance lie more than the cooldown
\* apart.
C3_NoDuplicateWithinCooldown ==
  [][\A S \in KnownIds :
       (writes'[S] > writes[S] /\ markedAt[S] >= 0)
       => now' - markedAt[S] > CooldownUnits]_vars

\* C4 (double-increment race), as the claim has it: when the two controllers
\* have read the same record of S (neither's get saw the other's write), both
\* found it eligible and both issued their update, the stored total_attendance
\* is 2 above the total they read.
RaceOn(S) ==
  /\ hist[1].id = S /\ hist[2].id = S
  /\ hist[1].wrote /\ hist[2].wrote
  /\ hist[1].ver = hist[2].ver
  /\ writes[S] = hist[1].ver + 2

C4_RaceDoubleIncrement ==
  \A S \in KnownIds :
    RaceOn(S) => TotalOf(The(store[S])) = hist[1].base + 2

\* C4 as amended: in that race each controller writes the total it read + 1,
\* so the store ends 1 above the total read, one of the two increments lost.
C4_RaceLostUpdate ==
  \A S \in KnownIds :
    RaceOn(S) => /\ hist[1].base = hist[2].base
                 /\ TotalOf(The(store[S])) = hist[1].base + 1

\* C4's case: both controllers read S1's record, both marked, and all of it
\* within one cooldown window.
C4_Witness ==
  /\ RaceOn("S1")
  /\ ev[1].gate = "accept" /\ ev[2].gate = "accept"
  /\ now < CooldownUnits

\* C5 (monotonic count): under any interleaving of the gets and updates of the
\* two controllers, a subject's stored total_attendance is an integer >= 0
\* and never decreases from one state to the next.
C5_MonotonicCount ==
  [][\A S \in KnownIds :
       store[S] # {} =>
         /\ store'[S] # {}
         /\ TotalOf(The(store'[S])) >= 0
         /\ TotalOf(The(store'[S])) >= TotalOf(The(store[S]))]_vars

\* The controller is in IDLE: the loop runs, the counter is 0, the mode is 0.
Idle(c) == pc[c] # "halted" /\ frame_counter[c] = 0 /\ current_mode[c] = 0

\* C6 (state-machine completeness): whatever the frames, the controller is in
\* IDLE again and again.  Two kinds of behaviour are left out of the
\* statement, so that what violates it violates the claim for the stage
\* machine's own reason: those in which the gate rejects for ever (the model's
\* clock is bounded) and those in which the loop has halted.
C6_AlwaysEventuallyIdle ==
  []<>(Idle(1) \/ ev[1].gate = "reject" \/ pc[1] = "halted")

\* C7 (failures never terminate the loop): after an iteration on which the
\* store's get or update failed, the loop still runs and no mark was made.
C7_StoreFailureSurvived ==
  ev[1].failed # "none" => (pc[1] # "halted" /\ ev[1].put = None)

\* The id the iteration matched has no record in the store.
MatchedUnknown == ev[1].matched # None /\ store[ev[1].matched] = {}

\* C8 (unknown subject), as the claim has it: an iteration that matched an id
\* with no record issues no update and ends in IDLE.
C8_UnknownSubjectIdle ==
  (MatchedUnknown /\ ev[1].faces) =>
    (ev[1].put = None /\ frame_counter[1] = 0 /\ current_mode[1] = 0)

\* C8 as amended: such an iteration issues no update and leaves the store as
\* it was; it ends in IDLE when it started with no display session in progress
\* (frame_counter <= 1), and goes on with the session otherwise.
C8_UnknownSubjectNoWrite ==
  [][(TickStep /\ ev'[1].matched # None /\ store[ev'[1].matched] = {})
       => ( /\ ev'[1].put = None
            /\ store' = store
            /\ writes' = writes
            /\ pc'[1] = "loop"
            /\ frame_counter[1] <= 1
                 => (frame_counter'[1] = 0 /\ current_mode'[1] = 0)
            /\ frame_counter[1] >= 2
                 => (frame_counter'[1] = 0 <=> ev'[1].reset) )]_vars

\* C8's case: the second of two consecutive iterations that matched X, the
\* get answering that X has no record.
C8_Witness ==
  /\ MatchedUnknown /\ ev[1].xrun = 2 /\ ev[1].got = "X"
  /\ frame_counter[1] = 0 /\ current_mode[1] = 0

C10_ResetAfterD ==
  ev[1].reset => dticks[1] = DisplayTicks

\* C10 as amended: with a face in every frame the session is reset at the end
\* of its tick number DisplayTicks - 1, the tick of the mark counted, not
\* before and not after, and the reset clears the cached record and image.
C10_ResetAfterDMinusOne ==
  /\ ev[1].reset =>
       /\ dticks[1] = DisplayTicks - 1
       /\ frame_counter[1] = 0 /\ current_mode[1] = 0
       /\ active_student[1] = {} /\ active_student_img[1] = None
  /\ (dticks[1] > 0 /\ ~ev[1].reset) =>
       /\ dticks[1] < DisplayTicks - 1
       /\ frame_counter[1] = dticks[1] + 1
       /\ active_student[1] # {} /\ active_student_img[1] # None

\* C10's case: a session in which every frame matched S1 was reset.
C10_Witness ==
  /\ ev[1].reset /\ ev[1].matched = "S1" /\ dticks[1] = DisplayTicks - 1
  /\ active_student[1] = {}

\* C11 (detection lost clears the session), as the claim has it: an iteration
\* with no face in the frame ends in IDLE with the whole session cleared:
\* frame_counter 0, mode 0, no active id and no cached record.
C11_NoFaceClearsSession ==
  [][(TickStep /\ ~ev'[1].faces)
       => ( /\ frame_counter'[1] = 0 /\ current_mode'[1] = 0
            /\ active_id'[1] = None /\ active_student'[1] = {} )]_vars

\* C12 (writes touch only attendance fields): a step that changes the store or
\* issues an update is an iteration that updates one subject, whose record
\* was there before; the record's name and branch stay as stored (a missing
\* one stays missing) and every other subject's record is unchanged.
C12_WritesOnlyAttendanceFields ==
  [][\A S \in KnownIds :
       (store'[S] # store[S] \/ writes'[S] # writes[S])
       => ( /\ TickStep
            /\ ev'[1].put = S
            /\ writes'[S] = writes[S] + 1
            /\ store[S] # {} /\ store'[S] # {}
            /\ The(store'[S]).name = The(store[S]).name
            /\ The(store'[S]).branch = The(store[S]).branch
            /\ The(store'[S]).total_attendance = IntField(TotalOf(The(store[S])) + 1)
            /\ The(store'[S]).last_attendance_time = Strftime(now)
            /\ \A T \in KnownIds \ {S} :
                 store'[T] = store[T] /\ writes'[T] = writes[T] )]_vars

\* C12's case: the controller marked S1, whose record holds no name and no
\* branch: the defaults it read the record with were not written back.
C12_Witness ==
  /\ ev[1].put = "S1" /\ writes["S1"] = 1
  /\ The(store["S1"]).name = Missing /\ The(store["S1"]).branch = Missing
  /\ The(store["S1"]).total_attendance = IntField(1)

\* The id the iteration matched has a record and no local image.
MatchedNoImage(e, st) ==
  e.matched # None /\ st[e.matched] # {} /\ e.matched \notin Images

\* C13 (missing local image), as the claim has it: an iteration that matched a
\* subject with a record and no image file issues no update and ends in IDLE.
C13_MissingImageIdle ==
  [][(TickStep /\ MatchedNoImage(ev'[1], store))
       => ( /\ ev'[1].put = None
            /\ frame_counter'[1] = 0 /\ current_mode'[1] = 0 )]_vars

\* C13 as amended: such an iteration issues no update and leaves the store as
\* it was; it ends in IDLE when it started with no display session in progress
\* (frame_counter <= 1), and goes on with the session otherwise.
C13_MissingImageNoWrite ==
  [][(TickStep /\ MatchedNoImage(ev'[1], store))
       => ( /\ ev'[1].put = None
            /\ store' = store
            /\ writes' = writes
            /\ pc'[1] = "loop"
            /\ frame_counter[1] <= 1
                 => ( /\ ev'[1].got = ev'[1].matched
                      /\ frame_counter'[1] = 0 /\ current_mode'[1] = 0 )
            /\ frame_counter[1] >= 2
                 => ( /\ ev'[1].got = None
                      /\ frame_counter'[1] = 0 <=> ev'[1].reset ) )]_vars

\* C13's case: an idle controller matched S2 (a record the gate would accept,
\* no image) after the cooldown's end; S2 was not marked.
C13_Witness ==
  /\ ev[1].matched = "S2" /\ ev[1].got = "S2" /\ ev[1].fc0 = 0
  /\ ev[1].put = None /\ writes["S2"] = 0
  /\ frame_counter[1] = 0 /\ current_mode[1] = 0
  /\ now > CooldownUnits

\* C14 (DENIED_COOLDOWN is a single-tick state): the iteration after one that
\* ended with mode 3 ends in IDLE, whatever its frame.
C14_DeniedSingleTick ==
  [][(TickStep /\ current_mode[1] = 3)
       => (current_mode'[1] = 0 /\ frame_counter'[1] = 0 /\ pc'[1] = "loop")]_vars

\* C15 (writes only for a subject matched in the current session): an update
\* for S is issued on an iteration whose frame holds a face matched to S.
C15_WritesOnlyForMatched ==
  [][\A S \in KnownIds :
       (TickStep /\ writes'[S] > writes[S]) => ev'[1].matched = S]_vars

\* C16 (unmatched face while idle is a no-op): an iteration that starts in
\* IDLE and whose frame holds faces, none of them matched, leaves the loop
\* running, reads and writes nothing, and ends with frame_counter 0.
C16_UnmatchedIdleNoOp ==
  [][(TickStep /\ frame_counter[1] = 0 /\ current_mode[1] = 0
        /\ ev'[1].faces /\ ev'[1].matched = None)
       => ( /\ pc'[1] = "loop"
            /\ ev'[1].got = None /\ ev'[1].put = None
            /\ store' = store
            /\ frame_counter'[1] = 0 /\ current_mode'[1] = 0 )]_vars

\* C17 (active subject fixed for a session): while a session displays (the
\* counter is 2 or more), active_id is the subject whose record and image the
\* session fetched.
C17_ActiveSubjectFixed ==
  frame_counter[1] >= 2 => active_id[1] = active_student_img[1]

\* C18 (one store round trip per session): the get and the update happen on
\* the session's first iteration only; one that starts with the counter off 0
\* leaves the store unread and unchanged.
C18_RoundTripOnFirstTick ==
  [][(TickStep /\ frame_counter[1] # 0)
       => (ev'[1].got = None /\ ev'[1].put = None /\ store' = store)]_vars

\* C19 (multiple faces in one frame), as the claim has it: the face iterated
\* last determines active_id, whatever the earlier faces: its id when it
\* matched, and no change of active_id when it did not.
C19_LastFaceDetermines ==
  [][(TickStep /\ ev'[1].faces)
       => active_id'[1] = IF lastface' # NoMatch THEN lastface' ELSE active_id[1]]_vars

\* C19 as amended: the last face that matched determines active_id, also when
\* unmatched faces are iterated after it; with no matched face active_id is
\* left as it was; and the get of an iteration that starts a session asks
\* for that id.
C19_LastMatchedFaceDetermines ==
  [][TickStep
       => ( /\ active_id'[1] = IF ev'[1].matched # None THEN ev'[1].matched
                                ELSE active_id[1]
            /\ (lastface' \in KnownIds) => ev'[1].matched = lastface'
            /\ (ev'[1].matched # None /\ frame_counter[1] <= 1)
                 => ev'[1].got = ev'[1].matched )]_vars

\* C19's case: a frame whose matched face S1 is followed by an unmatched one;
\* the session started, and the mark made, is S1's.
C19_Witness ==
  /\ lastface = NoMatch /\ ev[1].matched = "S1" /\ ev[1].fc0 = 0
  /\ active_id[1] = "S1" /\ ev[1].got = "S1" /\ ev[1].put = "S1"

=============================================================================
